---------------------------- MODULE Spec2Model ----------------------------
(***************************************************************************)
(* Model of goik-ga's pga package: Vec3 (point.go), the dual-quaternion    *)
(* Motor (motor.go) and the Jacobian helpers (hexapod_leg/main.go).        *)
(*                                                                         *)
(* The package computes over float64.  The model computes over exact       *)
(* rationals <<n, d>> (lowest terms, d > 0), so "equals" below is equality *)
(* of real numbers: rounding, NaN and infinities are outside the model.    *)
(* math.Sqrt is applied only to squares of rationals, and angles are       *)
(* multiples of one unit angle whose half-angle has rational cosine and    *)
(* sine, so that math.Cos and math.Sin are exact as well.                  *)
(***************************************************************************)
EXTENDS Integers, Sequences, FiniteSets, TLC

---------------------------------------------------------------------------
(* Bounds of the model *)

\* point coordinates range over -1 .. MaxCoord
MaxCoord == 1
\* angles range over -1 .. MaxAngle unit angles
MaxAngle == 2
\* pitches range over 0 .. MaxPitch (length per unit angle)
MaxPitch == 1
\* axes are the base axes scaled by 1 .. MaxScale
MaxScale == 2

---------------------------------------------------------------------------
(* float64 arithmetic, as exact rational arithmetic *)

\* a rational is <<n, d>> in lowest terms with d > 0
Rat == Int \X Nat

Abs(n) == IF n < 0 THEN 0 - n ELSE n

GCD[m \in Nat, n \in Nat] == IF n = 0 THEN m ELSE GCD[n, m % n]

\* the rational n/d (d # 0) in lowest terms with a positive denominator
Frac[n \in Int, d \in Int] ==
    LET g == GCD[Abs(n), Abs(d)]
        s == IF d < 0 THEN 0 - 1 ELSE 1
    IN  <<(s * n) \div g, (s * d) \div g>>

R(n) == <<n, 1>>

RNeg[x \in Rat] == <<0 - x[1], x[2]>>

RAdd[x \in Rat, y \in Rat] ==
    LET g == GCD[x[2], y[2]]
        l == (x[2] \div g) * y[2]
    IN  Frac[x[1] * (l \div x[2]) + y[1] * (l \div y[2]), l]

RSub[x \in Rat, y \in Rat] == RAdd[x, RNeg[y]]

RMul[x \in Rat, y \in Rat] ==
    LET g1 == GCD[Abs(x[1]), y[2]]
        g2 == GCD[Abs(y[1]), x[2]]
    IN  Frac[(x[1] \div g1) * (y[1] \div g2), (x[2] \div g2) * (y[2] \div g1)]

\* x / y, y # 0
RDiv[x \in Rat, y \in Rat] == RMul[x, Frac[y[2], y[1]]]

\* math.Sqrt on the square of a natural number
ISqrt(n) == CHOOSE k \in 0..n : k * k = n

\* math.Sqrt on the square of a rational
Sqrt(x) == <<ISqrt(x[1]), ISqrt(x[2])>>

\* an angle is a whole number k of unit angles U, where cos(U/2) = 3/5 and
\* sin(U/2) = 4/5; HalfCis(k) = <<cos(kU/2), sin(kU/2)>> by de Moivre
RECURSIVE HalfCis(_)
HalfCis(k) ==
    IF k = 0 THEN <<R(1), R(0)>>
    ELSE IF k < 0 THEN LET c == HalfCis(0 - k) IN <<c[1], RNeg[c[2]]>>
    ELSE LET c == HalfCis(k - 1)
         IN  <<RSub[RMul[c[1], Frac[3, 5]], RMul[c[2], Frac[4, 5]]],
               RAdd[RMul[c[1], Frac[4, 5]], RMul[c[2], Frac[3, 5]]]>>

\* math.Cos(0.5 * theta), math.Sin(0.5 * theta)
CosHalf(theta) == HalfCis(theta)[1]
SinHalf(theta) == HalfCis(theta)[2]

\* pitch * theta: pitch is a length per unit angle, theta a number of unit angles
PitchTimes(pitch, theta) == RMul[pitch, R(theta)]

---------------------------------------------------------------------------
(* point.go: Vec3 *)

V(x, y, z) == [X |-> x, Y |-> y, Z |-> z]

Add(a, b) == V(RAdd[a.X, b.X], RAdd[a.Y, b.Y], RAdd[a.Z, b.Z])
Sub(a, b) == V(RSub[a.X, b.X], RSub[a.Y, b.Y], RSub[a.Z, b.Z])
Scale(a, s) == V(RMul[s, a.X], RMul[s, a.Y], RMul[s, a.Z])

Dot(a, b) == RAdd[RAdd[RMul[a.X, b.X], RMul[a.Y, b.Y]], RMul[a.Z, b.Z]]

\* Cross with a fault: b.X for b.Y in the first component
CrossSlip(a, b) ==
    V(RSub[RMul[a.Y, b.Z], RMul[a.Z, b.X]],
      RSub[RMul[a.Z, b.X], RMul[a.X, b.Z]],
      RSub[RMul[a.X, b.Y], RMul[a.Y, b.X]])

Cross(a, b) ==
    V(RSub[RMul[a.Y, b.Z], RMul[a.Z, b.Y]],
      RSub[RMul[a.Z, b.X], RMul[a.X, b.Z]],
      RSub[RMul[a.X, b.Y], RMul[a.Y, b.X]])

Norm(a) == Sqrt(Dot(a, a))

\* Normalized with a fault: a default unit vector for norm 0, as quat.Normalize
\* defaults to the identity quaternion
NormalizedDefault(a) ==
    LET n == Norm(a)
    IN  IF n = R(0) THEN V(R(1), R(0), R(0)) ELSE Scale(a, RDiv[R(1), n])

Normalized(a) ==
    LET n == Norm(a)
    IN  IF n = R(0) THEN a ELSE Scale(a, RDiv[R(1), n])

Neg(a) == V(RNeg[a.X], RNeg[a.Y], RNeg[a.Z])

---------------------------------------------------------------------------
(* motor.go: quat *)

q(w, x, y, z) == [w |-> w, x |-> x, y |-> y, z |-> z]

QMul(a, b) ==
    q(RSub[RSub[RSub[RMul[a.w, b.w], RMul[a.x, b.x]], RMul[a.y, b.y]], RMul[a.z, b.z]],
      RSub[RAdd[RAdd[RMul[a.w, b.x], RMul[a.x, b.w]], RMul[a.y, b.z]], RMul[a.z, b.y]],
      RAdd[RAdd[RSub[RMul[a.w, b.y], RMul[a.x, b.z]], RMul[a.y, b.w]], RMul[a.z, b.x]],
      RAdd[RSub[RAdd[RMul[a.w, b.z], RMul[a.x, b.y]], RMul[a.y, b.x]], RMul[a.z, b.w]])

Conj(a) == q(a.w, RNeg[a.x], RNeg[a.y], RNeg[a.z])

\* a.w*a.w + a.x*a.x + a.y*a.y + a.z*a.z, the square of quat.Norm
QNormSq(a) ==
    RAdd[RAdd[RAdd[RMul[a.w, a.w], RMul[a.x, a.x]], RMul[a.y, a.y]], RMul[a.z, a.z]]

QNorm(a) == Sqrt(QNormSq(a))

QNormalize(a) ==
    LET n == QNorm(a)
    IN  IF n = R(0) THEN q(R(1), R(0), R(0), R(0))
        ELSE q(RDiv[a.w, n], RDiv[a.x, n], RDiv[a.y, n], RDiv[a.z, n])

pure(v) == q(R(0), v.X, v.Y, v.Z)

---------------------------------------------------------------------------
(* motor.go: Motor *)

Motor(r, d) == [r |-> r, d |-> d]

\* Identity with a fault: the zero value Motor{}
IdentityZeroValue == Motor(q(R(0), R(0), R(0), R(0)), q(R(0), R(0), R(0), R(0)))

Identity == Motor(q(R(1), R(0), R(0), R(0)), q(R(0), R(0), R(0), R(0)))

\* FromAxisAngle with a fault: the axis not normalized
FromAxisAngleRawAxis(u, theta) ==
    LET s == SinHalf(theta)
        r == q(CosHalf(theta), RMul[u.X, s], RMul[u.Y, s], RMul[u.Z, s])
    IN  Motor(r, q(R(0), R(0), R(0), R(0)))

FromAxisAngle(u, theta) ==
    LET uhat == Normalized(u)
        s    == SinHalf(theta)
        r    == q(CosHalf(theta), RMul[uhat.X, s], RMul[uhat.Y, s], RMul[uhat.Z, s])
    IN  Motor(r, q(R(0), R(0), R(0), R(0)))

Translator(t) ==
    Motor(q(R(1), R(0), R(0), R(0)),
          q(R(0), RMul[Frac[1, 2], t.X], RMul[Frac[1, 2], t.Y], RMul[Frac[1, 2], t.Z]))

\* Mul with a fault: the rotation part renormalized after the product
MulRenormalized(a, b) ==
    LET r  == QNormalize(QMul(a.r, b.r))
        d  == QMul(a.r, b.d)
        e  == QMul(a.d, b.r)
    IN  Motor(r, q(RAdd[d.w, e.w], RAdd[d.x, e.x], RAdd[d.y, e.y], RAdd[d.z, e.z]))

\* Mul with a fault: the operands of every quaternion product exchanged
MulReversed(a, b) ==
    LET r  == QMul(b.r, a.r)
        d  == QMul(b.r, a.d)
        e  == QMul(b.d, a.r)
    IN  Motor(r, q(RAdd[d.w, e.w], RAdd[d.x, e.x], RAdd[d.y, e.y], RAdd[d.z, e.z]))

Mul(a, b) ==
    LET r  == QMul(a.r, b.r)
        d  == QMul(a.r, b.d)
        e  == QMul(a.d, b.r)
    IN  Motor(r, q(RAdd[d.w, e.w], RAdd[d.x, e.x], RAdd[d.y, e.y], RAdd[d.z, e.z]))

\* Screw with a fault: the axis not normalized
ScrewRawPitchAxis(p, u, theta, pitch) ==
    LET un     == u
        Rot    == FromAxisAngle(un, theta)
        Tpitch == Translator(Scale(un, PitchTimes(pitch, theta)))
        Tp     == Translator(p)
        Tm     == Translator(Neg(p))
    IN  CHOOSE M \in {Mul(TRT, Tpitch) :
                         TRT \in {Mul(TR, Tm) : TR \in {Mul(Tp, Rot)}}} : TRUE

\* Screw with a fault: T(-p) * R * T(p) * Tpitch
ScrewAnchorsSwapped(p, u, theta, pitch) ==
    LET un     == Normalized(u)
        Rot    == FromAxisAngle(un, theta)
        Tpitch == Translator(Scale(un, PitchTimes(pitch, theta)))
        Tp     == Translator(p)
        Tm     == Translator(Neg(p))
    IN  CHOOSE M \in {Mul(TRT, Tpitch) :
                         TRT \in {Mul(TR, Tp) : TR \in {Mul(Tm, Rot)}}} : TRUE

\* Tp.Mul(R).Mul(Tm).Mul(Tpitch): each product is a value (the one element of
\* a set) before the next Mul is applied to it
Screw(p, u, theta, pitch) ==
    LET un     == Normalized(u)
        Rot    == FromAxisAngle(un, theta)
        Tpitch == Translator(Scale(un, PitchTimes(pitch, theta)))
        Tp     == Translator(p)
        Tm     == Translator(Neg(p))
    IN  CHOOSE M \in {Mul(TRT, Tpitch) :
                         TRT \in {Mul(TR, Tm) : TR \in {Mul(Tp, Rot)}}} : TRUE

\* Inv with a fault: the dual part multiplied by the conjugate on one side only
InvOneSided(a) ==
    LET rc == Conj(a.r)
        dr == QMul(rc, a.d)
    IN  Motor(rc, q(RNeg[dr.w], RNeg[dr.x], RNeg[dr.y], RNeg[dr.z]))

\* Inv with a fault: the dual part not negated
InvNotNegated(a) ==
    LET rc == Conj(a.r)
        dr == QMul(QMul(rc, a.d), rc)
    IN  Motor(rc, dr)

Inv(a) ==
    LET rc == Conj(a.r)
        dr == QMul(QMul(rc, a.d), rc)
    IN  Motor(rc, q(RNeg[dr.w], RNeg[dr.x], RNeg[dr.y], RNeg[dr.z]))

\* ActPoint with a fault: the rotation sandwich closed with r, not its conjugate
ActPointNoConj(a, p) ==
    LET rp  == QMul(QMul(a.r, pure(p)), a.r)
        rot == V(rp.x, rp.y, rp.z)
        tr  == QMul(a.d, Conj(a.r))
        t   == V(RMul[R(2), tr.x], RMul[R(2), tr.y], RMul[R(2), tr.z])
    IN  Add(rot, t)

ActPoint(a, p) ==
    LET rp  == QMul(QMul(a.r, pure(p)), Conj(a.r))
        rot == V(rp.x, rp.y, rp.z)
        tr  == QMul(a.d, Conj(a.r))
        t   == V(RMul[R(2), tr.x], RMul[R(2), tr.y], RMul[R(2), tr.z])
    IN  Add(rot, t)

\* ActDir with a fault: the translation term of ActPoint kept
ActDirTranslated(a, v) ==
    LET rp == QMul(QMul(a.r, pure(v)), Conj(a.r))
        tr == QMul(a.d, Conj(a.r))
    IN  V(RAdd[rp.x, RMul[R(2), tr.x]], RAdd[rp.y, RMul[R(2), tr.y]],
          RAdd[rp.z, RMul[R(2), tr.z]])

ActDir(a, v) ==
    LET rp == QMul(QMul(a.r, pure(v)), Conj(a.r))
    IN  V(rp.x, rp.y, rp.z)

---------------------------------------------------------------------------
(* hexapod_leg/main.go: Jacobian helpers *)

RevoluteColumn(axisPoint, axisDir, toe) ==
    LET u == Normalized(axisDir)
        r == Sub(toe, axisPoint)
    IN  Cross(u, r)

PrismaticColumn(axisDir) == Normalized(axisDir)

---------------------------------------------------------------------------
(* Inputs the operations are called with *)

Zero == V(R(0), R(0), R(0))

Coords == (0 - 1)..MaxCoord
Points == {V(R(x), R(y), R(z)) : x, y, z \in Coords}

\* the origin and the three unit points
Probes == {Zero, V(R(1), R(0), R(0)), V(R(0), R(1), R(0)), V(R(0), R(0), R(1))}

\* directions whose length is rational: x (leg links), y, z (leg joints) and
\* two skew ones of lengths 3 and 5
BaseAxes ==
    {V(R(1), R(0), R(0)), V(R(0), R(1), R(0)), V(R(0), R(0), R(1)),
     V(R(1), R(2), R(2)), V(R(0 - 3), R(0), R(4))}
Scales == 1..MaxScale
Axes == {Scale(u, R(k)) : u \in BaseAxes, k \in Scales}

\* points an axis passes through: the origin, a joint centre on x, a skew point
Anchors == {Zero, V(R(1), R(0), R(0)), V(R(0 - 1), R(1), R(1))}
Angles == (0 - 1)..MaxAngle
Pitches == {R(h) : h \in 0..MaxPitch}

\* rotation parts of norm 1: identity, a half turn, a third of a turn about
\* (1,1,1), one unit angle about y, a half turn and a unit angle about (1,2,2)
UnitQuats ==
    {q(R(1), R(0), R(0), R(0)),
     q(R(0), R(0), R(0), R(1)),
     q(Frac[1, 2], Frac[1, 2], Frac[1, 2], Frac[1, 2]),
     q(Frac[3, 5], R(0), Frac[4, 5], R(0)),
     q(R(0), Frac[1, 3], Frac[2, 3], Frac[2, 3]),
     q(Frac[3, 5], Frac[0 - 4, 15], Frac[0 - 8, 15], Frac[0 - 8, 15])}

\* rotation parts of norm other than 1, the zero quaternion among them
NonUnitQuats ==
    {q(R(0), R(0), R(0), R(0)),
     q(R(2), R(0), R(0), R(0)),
     q(R(1), R(1), R(0), R(0)),
     q(Frac[1, 2], R(0), R(0 - 1), Frac[1, 3])}

\* dual parts: zero, a translation's, and two that are not orthogonal to r
Duals ==
    {q(R(0), R(0), R(0), R(0)),
     q(R(0), Frac[1, 2], R(0 - 1), R(0)),
     q(R(1), R(0), R(0), R(0)),
     q(R(0 - 1), R(2), Frac[1, 2], R(1))}

UnitMotors == {Motor(r, d) : r \in UnitQuats, d \in Duals}
AllMotors == {Motor(r, d) : r \in UnitQuats \cup NonUnitQuats, d \in Duals}

---------------------------------------------------------------------------
(* State: the call made into the package (op), its arguments and its       *)
(* results.  Each behaviour makes one call, from the state before any.     *)

VARIABLES op, args, res

vars == <<op, args, res>>

Init ==
    /\ op = "none"
    /\ args = [p |-> Zero]
    /\ res = [pt |-> Zero]

\* M := a.Mul(b); M.ActPoint(p), as main.go builds a chain and places the toe
ComposeAct ==
    /\ op = "none"
    /\ \E a \in UnitMotors, b \in UnitMotors, p \in Probes :
        \E m \in {Mul(a, b)} :
            /\ op' = "ComposeAct"
            /\ args' = [a |-> a, b |-> b, p |-> p]
            /\ res' = [m |-> m, pt |-> ActPoint(m, p)]

\* m.Inv(), m.Mul(m.Inv()) and m.Inv().ActPoint(m.ActPoint(p))
InverseAct ==
    /\ op = "none"
    /\ \E m \in AllMotors, p \in Points :
        \E inv \in {Inv(m)}, fwd \in {ActPoint(m, p)} :
            /\ op' = "InverseAct"
            /\ args' = [m |-> m, p |-> p]
            /\ res' = [inv |-> inv, prod |-> Mul(m, inv),
                       fwd |-> fwd, back |-> ActPoint(inv, fwd)]

\* Identity().Mul(m) and m.Mul(Identity())
IdentityMul ==
    /\ op = "none"
    /\ \E m \in AllMotors :
        /\ op' = "IdentityMul"
        /\ args' = [m |-> m]
        /\ res' = [left |-> Mul(Identity, m), right |-> Mul(m, Identity)]

\* m.ActPoint(p) and m.ActPoint(q)
RigidAct ==
    /\ op = "none"
    /\ \E m \in AllMotors, p \in Probes, p2 \in Probes :
        /\ op' = "RigidAct"
        /\ args' = [m |-> m, p |-> p, q |-> p2]
        /\ res' = [mp |-> ActPoint(m, p), mq |-> ActPoint(m, p2)]

\* ActDir and ActPoint of two motors with the same r and dual parts d, e
DirAct ==
    /\ op = "none"
    /\ \E r \in UnitQuats \cup NonUnitQuats, d \in Duals, e \in Duals, v \in Probes :
        \E m \in {Motor(r, d)}, n \in {Motor(r, e)} :
            /\ op' = "DirAct"
            /\ args' = [m |-> m, n |-> n, v |-> v]
            /\ res' = [dir |-> ActDir(m, v), dirn |-> ActDir(n, v),
                       pt |-> ActPoint(m, v), org |-> ActPoint(m, Zero)]

\* Screw(p, u, theta, pitch).ActPoint(x), u being u0 at some length
ScrewAct ==
    /\ op = "none"
    /\ \E p \in Anchors, u0 \in BaseAxes, k \in Scales, theta \in Angles,
          pitch \in Pitches, x \in Probes :
        \E u \in {Scale(u0, R(k))} :
            \E m \in {Screw(p, u, theta, pitch)} :
                /\ op' = "ScrewAct"
                /\ args' = [p |-> p, u0 |-> u0, u |-> u, theta |-> theta,
                            pitch |-> pitch, x |-> x]
                /\ res' = [m |-> m, pt |-> ActPoint(m, x)]

\* Screw(p, u, theta, 0).ActPoint(p), as main.go builds its joints
ScrewAxisPoint ==
    /\ op = "none"
    /\ \E p \in Points, u \in BaseAxes, theta \in Angles :
        \E m \in {Screw(p, u, theta, R(0))} :
            /\ op' = "ScrewAxisPoint"
            /\ args' = [p |-> p, u |-> u, theta |-> theta]
            /\ res' = [m |-> m, pt |-> ActPoint(m, p)]

\* FromAxisAngle(u, theta1).Mul(FromAxisAngle(u, theta2)), the product in the
\* other order, and FromAxisAngle(u, theta1 + theta2)
RotCompose ==
    /\ op = "none"
    /\ \E u \in Axes, theta1 \in Angles, theta2 \in Angles :
        \E m1 \in {FromAxisAngle(u, theta1)}, m2 \in {FromAxisAngle(u, theta2)} :
            /\ op' = "RotCompose"
            /\ args' = [u |-> u, theta1 |-> theta1, theta2 |-> theta2]
            /\ res' = [m |-> Mul(m1, m2), rev |-> Mul(m2, m1),
                       sum |-> FromAxisAngle(u, theta1 + theta2)]

\* RevoluteColumn(c, u, toe) and PrismaticColumn(u), the zero axis included
JacobianAct ==
    /\ op = "none"
    /\ \E c \in Anchors, u \in Axes \cup {Zero}, toe \in Points :
        /\ op' = "JacobianAct"
        /\ args' = [c |-> c, u |-> u, toe |-> toe]
        /\ res' = [rev |-> RevoluteColumn(c, u, toe), pris |-> PrismaticColumn(u),
                   unit |-> Normalized(u)]

Next ==
    \/ ComposeAct
    \/ InverseAct
    \/ IdentityMul
    \/ RigidAct
    \/ DirAct
    \/ ScrewAct
    \/ ScrewAxisPoint
    \/ RotCompose
    \/ JacobianAct

Spec == Init /\ [][Next]_vars

---------------------------------------------------------------------------
(* Motors built by sequences of calls: a constructor makes the first motor, *)
(* and each step is one Mul or Inv, or keeps a copy for a later Mul.        *)
(* res.m is the motor built so far and res.g the copy kept; args.factors    *)
(* is the chain with res.m = factors[1].Mul(factors[2])...Mul(factors[n]),  *)
(* args.a and args.b are the operands of the last call, args.zero tells     *)
(* whether a zero axis was passed to a constructor, args.steps counts.      *)

\* calls made after the constructor
MaxSteps == 2

\* a constructor's result, and whether its axis was the zero vector
Gen(m, zero) == [m |-> m, zero |-> zero]

\* motors that later steps multiply by: the toe offset along x, a turn about
\* a z axis of length 2, a screw with pitch about y through a joint centre,
\* and a rotation about the zero axis
StepGens ==
    {Gen(Translator(V(R(1), R(0), R(0))), FALSE),
     Gen(FromAxisAngle(V(R(0), R(0), R(2)), 1), FALSE),
     Gen(Screw(V(R(1), R(0), R(0)), V(R(0), R(1), R(0)), 0 - 1, R(1)), FALSE),
     Gen(FromAxisAngle(Zero, 1), TRUE)}

\* motors a sequence starts from: the above, Identity(), a skew translator,
\* rotations and screws about skew axes, and a screw about the zero axis
\* (the same motor as the rotation about the zero axis: its anchor and pitch
\* cancel)
InitGens ==
    StepGens \cup
    {Gen(Identity, FALSE),
     Gen(Translator(V(R(0 - 1), R(1), R(1))), FALSE),
     Gen(FromAxisAngle(V(R(1), R(2), R(2)), 1), FALSE),
     Gen(FromAxisAngle(V(R(0 - 3), R(0), R(4)), 0 - 1), FALSE),
     Gen(Screw(V(R(0 - 1), R(1), R(1)), V(R(1), R(2), R(2)), 1, R(1)), FALSE),
     Gen(Screw(V(R(0), R(1), R(0)), V(R(0), R(0), R(1)), 2, R(0)), FALSE),
     Gen(Screw(V(R(1), R(0), R(0)), Zero, 1, R(1)), TRUE)}

MotorInit ==
    \E g \in InitGens :
        /\ op = "Construct"
        /\ args = [a |-> g.m, b |-> g.m, factors |-> <<g.m>>,
                   zero |-> g.zero, steps |-> 0]
        /\ res = [m |-> g.m, g |-> Identity]

\* M = M.Mul(g) for a newly constructed g
MulGen ==
    /\ args.steps < MaxSteps
    /\ \E g \in StepGens :
        \E m \in {Mul(res.m, g.m)} :
            /\ op' = "MulGen"
            /\ args' = [a |-> res.m, b |-> g.m,
                        factors |-> Append(args.factors, g.m),
                        zero |-> (args.zero \/ g.zero), steps |-> args.steps + 1]
            /\ res' = [res EXCEPT !.m = m]

\* M = g.Mul(M) for a newly constructed g
GenMul ==
    /\ args.steps < MaxSteps
    /\ \E g \in StepGens :
        \E m \in {Mul(g.m, res.m)} :
            /\ op' = "GenMul"
            /\ args' = [a |-> g.m, b |-> res.m, factors |-> <<g.m, res.m>>,
                        zero |-> (args.zero \/ g.zero), steps |-> args.steps + 1]
            /\ res' = [res EXCEPT !.m = m]

\* M = M.Inv()
InvStep ==
    /\ args.steps < MaxSteps
    /\ \E m \in {Inv(res.m)} :
        /\ op' = "InvStep"
        /\ args' = [a |-> res.m, b |-> res.m, factors |-> <<m>>,
                    zero |-> args.zero, steps |-> args.steps + 1]
        /\ res' = [res EXCEPT !.m = m]

\* G = M: the motor built so far is kept for a later Mul
Keep ==
    /\ args.steps < MaxSteps
    /\ op' = "Keep"
    /\ args' = [args EXCEPT !.a = res.m, !.b = res.m, !.steps = args.steps + 1]
    /\ res' = [res EXCEPT !.g = res.m]

\* M = M.Mul(G) for the motor kept
MulKept ==
    /\ args.steps < MaxSteps
    /\ \E m \in {Mul(res.m, res.g)} :
        /\ op' = "MulKept"
        /\ args' = [a |-> res.m, b |-> res.g,
                    factors |-> Append(args.factors, res.g),
                    zero |-> args.zero, steps |-> args.steps + 1]
        /\ res' = [res EXCEPT !.m = m]

MotorNext ==
    \/ MulGen
    \/ GenMul
    \/ InvStep
    \/ Keep
    \/ MulKept

MotorSpec == MotorInit /\ [][MotorNext]_vars

---------------------------------------------------------------------------
(* Claims *)

UnitNorm(m) == QNormSq(m.r) = R(1)

C2_InverseLaw ==
    (op = "InverseAct" /\ UnitNorm(args.m))
        => /\ res.prod = Identity
           /\ res.back = args.p

\* a unit-norm motor with a dual part not orthogonal to r that moves p
C2_Witness ==
    /\ op = "InverseAct"
    /\ UnitNorm(args.m)
    /\ args.m.r.w # R(1)
    /\ args.m.d.w # R(0)
    /\ res.inv # args.m
    /\ res.fwd # args.p

\* C3: for every motor m, unit-norm or not, Identity().Mul(m) and
\* m.Mul(Identity()) equal m in all eight components
C3_IdentityLaws ==
    op = "IdentityMul" => (res.left = args.m /\ res.right = args.m)

\* a motor whose r is not unit-norm and whose d is not zero
C3_Witness ==
    /\ op = "IdentityMul"
    /\ ~UnitNorm(args.m)
    /\ args.m.r # Identity.d
    /\ args.m.d # Identity.d

\* the square of the distance between two points
DistSq(a, b) == Dot(Sub(a, b), Sub(a, b))

\* C4: for every motor m with unit-norm r and points p, q, the squared
\* distance between m.ActPoint(p) and m.ActPoint(q) is that between p and q
C4_Rigidity ==
    (op = "RigidAct" /\ UnitNorm(args.m))
        => DistSq(res.mp, res.mq) = DistSq(args.p, args.q)

\* a rotating and translating unit-norm motor that moves two distinct points
C4_Witness ==
    /\ op = "RigidAct"
    /\ UnitNorm(args.m)
    /\ args.m.r.w # R(1)
    /\ args.m.d # Identity.d
    /\ args.p # args.q
    /\ res.mp # args.p
    /\ res.mq # args.q

\* C5: for every motor m, ActDir(v) is the same for a motor with m's r and
\* another dual part, and m.ActPoint(v) - m.ActDir(v) is m.ActPoint of the
\* origin, whatever v is
C5_DirVsPoint ==
    op = "DirAct"
        => /\ res.dir = res.dirn
           /\ Sub(res.pt, res.dir) = res.org

\* two motors of equal r, not unit-norm, with different dual parts, a nonzero
\* translation and a direction that the rotation part changes
C5_Witness ==
    /\ op = "DirAct"
    /\ args.m.r = args.n.r
    /\ args.m.d # args.n.d
    /\ ~UnitNorm(args.m)
    /\ res.org # Zero
    /\ res.dir # args.v
    /\ res.pt # res.dir

\* C6: for a nonzero axis u (u0 at any length) and every point x,
\* Screw(p, u, theta, pitch).ActPoint(x) is
\* p + Rot(x - p) + (pitch*theta) * normalize(u0), Rot being
\* FromAxisAngle(u0, theta).ActDir
C6_ScrewAction ==
    op = "ScrewAct"
        => res.pt =
             Add(Add(args.p,
                     ActDir(FromAxisAngle(args.u0, args.theta), Sub(args.x, args.p))),
                 Scale(Normalized(args.u0), PitchTimes(args.pitch, args.theta)))

\* a screw about a line off the origin, its axis not of length 1, with a
\* rotation and a pitch, applied to a point off the axis
C6_Witness ==
    /\ op = "ScrewAct"
    /\ args.u # args.u0
    /\ args.p # Zero
    /\ args.theta # 0
    /\ args.pitch # R(0)
    /\ args.x # args.p
    /\ Cross(args.u0, Sub(args.x, args.p)) # Zero
    /\ res.pt # args.x

\* C7: for every point p, nonzero axis u and angle theta,
\* Screw(p, u, theta, 0).ActPoint(p) = p
C7_ScrewFixesAxisPoint ==
    /\ op = "ScrewAxisPoint" => res.pt = args.p
    /\ (op = "ScrewAct" /\ args.pitch = R(0) /\ args.x = args.p) => res.pt = args.p

\* a zero-pitch screw that rotates about a skew axis through a point other
\* than the origin, and so has a dual part
C7_Witness ==
    /\ op = "ScrewAxisPoint"
    /\ args.p # Zero
    /\ args.theta # 0
    /\ Cross(args.u, args.p) # Zero
    /\ res.m.d # Identity.d
    /\ res.pt = args.p

\* C8: for a nonzero axis and angles theta1, theta2,
\* FromAxisAngle(axis, theta1).Mul(FromAxisAngle(axis, theta2)) is
\* FromAxisAngle(axis, theta1 + theta2) in every component, the product in
\* the other order is the same, and the dual part is zero
C8_RotationsAdd ==
    op = "RotCompose"
        => /\ res.m = res.sum
           /\ res.rev = res.m
           /\ res.m.d = Identity.d

\* two different nonzero angles about a skew axis not of length 1
C8_Witness ==
    /\ op = "RotCompose"
    /\ args.theta1 # 0 /\ args.theta2 # 0
    /\ args.theta1 # args.theta2
    /\ args.theta1 + args.theta2 # 0
    /\ Dot(args.u, args.u) # R(1)
    /\ args.u.X # R(0) /\ args.u.Z # R(0)
    /\ res.m # Identity

\* C9: RevoluteColumn(c, u, toe) is normalize(u) x (toe - c), component by
\* component, and for a unit u it is orthogonal to toe - c
C9_RevoluteColumn ==
    op = "JacobianAct"
        => LET n == res.unit
               r == Sub(args.toe, args.c)
           IN  /\ res.rev.X = RSub[RMul[n.Y, r.Z], RMul[n.Z, r.Y]]
               /\ res.rev.Y = RSub[RMul[n.Z, r.X], RMul[n.X, r.Z]]
               /\ res.rev.Z = RSub[RMul[n.X, r.Y], RMul[n.Y, r.X]]
               /\ Dot(args.u, args.u) = R(1) => Dot(res.rev, r) = R(0)

\* a unit axis and a toe off the axis line: a nonzero column
C9_Witness ==
    /\ op = "JacobianAct"
    /\ Dot(args.u, args.u) = R(1)
    /\ args.c # Zero
    /\ args.toe # args.c
    /\ res.rev # Zero

\* C10: Normalized of the zero vector is the zero vector, and so
\* RevoluteColumn(c, (0,0,0), toe) and PrismaticColumn((0,0,0)) are zero
C10_ZeroAxis ==
    (op = "JacobianAct" /\ args.u = Zero)
        => /\ res.unit = Zero
           /\ res.rev = Zero
           /\ res.pris = Zero

\* the zero axis with a toe away from the axis point
C10_Witness ==
    /\ op = "JacobianAct"
    /\ args.u = Zero
    /\ args.toe # args.c
    /\ res.pris = Zero

\* the calls of a sequence that are a Mul
MulOps == {"MulGen", "GenMul", "MulKept"}

\* C11: in every motor built by a sequence of Identity, Translator,
\* FromAxisAngle and Screw with nonzero axes, Mul and Inv, r has norm exactly
\* 1; and the r of every Mul is exactly the Hamilton product a.r * b.r
C11_UnitNormInvariant ==
    /\ (op \in MulOps \cup {"Construct", "InvStep", "Keep"} /\ ~args.zero)
           => (UnitNorm(res.m) /\ UnitNorm(res.g))
    /\ op \in MulOps => res.m.r = QMul(args.a.r, args.b.r)

\* a product, made in the last step of a sequence without zero axes, of two
\* motors that both rotate, neither the other's inverse
C11_Witness ==
    /\ op \in MulOps
    /\ ~args.zero
    /\ args.steps = MaxSteps
    /\ args.a.r.w # R(1) /\ args.b.r.w # R(1)
    /\ res.m.r.w # R(1)
    /\ res.m.r # args.a.r /\ res.m.r # args.b.r
    /\ res.m.d # Identity.d

\* Mn is applied first and M1 last
RECURSIVE ChainActPoint(_, _)
ChainActPoint(fs, p) ==
    IF fs = <<>> THEN p
    ELSE CHOOSE x \in {ActPoint(Head(fs), y) : y \in {ChainActPoint(Tail(fs), p)}} : TRUE

\* M1 is applied first and Mn last
RECURSIVE ChainActPointForward(_, _)
ChainActPointForward(fs, p) ==
    IF fs = <<>> THEN p
    ELSE CHOOSE x \in {ChainActPointForward(Tail(fs), y) : y \in {ActPoint(Head(fs), p)}} : TRUE

AllUnitNorm(fs) == \A i \in 1..Len(fs) : UnitNorm(fs[i])

QDot(a, b) ==
    RAdd[RAdd[RMul[a.w, b.w], RMul[a.x, b.x]], RAdd[RMul[a.y, b.y], RMul[a.z, b.z]]]

\* C13: in every motor built by a sequence of Identity, Translator,
\* FromAxisAngle, Screw, Mul and Inv, zero axes included, the dot product of
\* r and d is zero, that is, the scalar part of d * conjugate(r) is 0
C13_DualOrthogonal ==
    op \in MulOps \cup {"Construct", "InvStep", "Keep"}
        => /\ QDot(res.m.r, res.m.d) = R(0)
           /\ QMul(res.m.d, Conj(res.m.r)).w = R(0)
           /\ QDot(res.g.r, res.g.d) = R(0)

\* the inverse of a motor built with a zero axis: r not unit-norm, rotating,
\* with a dual part
C13_Witness ==
    /\ op = "InvStep"
    /\ args.zero
    /\ ~UnitNorm(res.m)
    /\ res.m.r.x # R(0) \/ res.m.r.y # R(0) \/ res.m.r.z # R(0)
    /\ res.m.d # Identity.d

=============================================================================
